---- MODULE Spec2Model ----
(***************************************************************************)
(* Kinematic core of the shooter: PhysicsBody (jump / jet / gravity /      *)
(* ground), Projectile (lifetime / gravity / ground impact) and the        *)
(* projectile pool of ProjectileManager.                                   *)
(*                                                                         *)
(* Numbers.  The source computes in IEEE doubles; the model computes in    *)
(* fixed point, with units chosen so that every product the code forms     *)
(* with the tick lengths of DtSet is an integer wherever that is possible: *)
(*   time              1/TPS s          (one FIXED_TIMESTEP)               *)
(*   body velocity     1/VU m/s         (GRAVITY * FIXED_TIMESTEP = 327)   *)
(*   body position     1/(VU*TPS) m     (velocity * dt needs no division)  *)
(*   fuel              1/TPS            (rate * dt needs no division)      *)
(*   projectile vel.   1/PVU m/s        (bullet gravity * dt is integral)  *)
(*   projectile pos.   1/(PVU*TPS) m                                       *)
(* The only rounding left is the boosted jet force (floor).                *)
(***************************************************************************)
EXTENDS Integers, Sequences, FiniteSets, TLC

VARIABLES
    body,          \* the PhysicsBody object: state, jumpPressed, jetActive
    last,          \* the last call made on the body: its arguments, the body
                   \* before it (pre), after the jump step (mid) and after the
                   \* jet step (jetted)
    ticks,         \* number of update calls with free inputs made so far
    setPositions,  \* number of setPosition calls made so far
    yMoved,        \* a setPosition since the last update changed position.y
    fallTicks,     \* free-fall scenario: number of ticks made
    inFall,        \* free-fall scenario: only no-input 1/60 s ticks so far
    jetTicks,      \* jet-hold scenario: number of ticks made
    inJet,         \* jet-hold scenario: only jet-held 1/60 s ticks so far
    jumpHist,      \* the jump input of the last update (jump) and of the one
                   \* before it (prev), and whether jump has been true in
                   \* every update since the last jump impulse (held)
    proj,          \* one Projectile object driven through its own methods
    plast,         \* the last call made on proj, with proj before it
    pcalls,        \* number of calls made on proj so far
    elapsed,       \* sum of the deltaTime of the update calls made on proj
    projectiles,   \* ProjectileManager: projectiles.current
    poolLast,      \* the last pool operation, with the pool before it
    spawns,        \* number of spawnProjectile calls after the initial fill
    frames,        \* number of useFrame callbacks after the initial fill
    deacts,        \* number of deactivate calls on pooled projectiles
    mesh,          \* ProjectileManager: the instanced mesh bulletInstanceRef.current
    nextId         \* identity given to the next Projectile object created

bodyVars ==
    <<body, last, ticks, setPositions, yMoved, fallTicks, inFall, jetTicks, inJet,
      jumpHist>>

projVars == <<proj, plast, pcalls, elapsed>>

poolVars == <<projectiles, poolLast, spawns, frames, deacts, nextId, mesh>>

vars == <<bodyVars, projVars, poolVars>>

-----------------------------------------------------------------------------
(* Arithmetic helpers (Math.min / Math.max / Math.abs).                    *)

Min(a, b) == IF a <= b THEN a ELSE b

Max(a, b) == IF a >= b THEN a ELSE b

Abs(a) == IF a < 0 THEN -a ELSE a

-----------------------------------------------------------------------------
(* PhysicsConstants.ts, in source units.                                   *)

\* GRAVITY = -9.81 * 2.5 = -24.525, in thousandths
GRAVITY_MILLI == -24525

MAX_FALL_SPEED == -20

JUMP_FORCE == 10

JET_FORCE == 30

JET_MAX_VELOCITY == 15

FUEL_MAX == 150

FUEL_CONSUMPTION == 15

FUEL_RECHARGE == 8

GROUND_Y == 0

\* FIXED_TIMESTEP = 1/60: time is counted in sixtieths of a second
TPS == 60

\* resolution of a body velocity: 1/800 m/s
VU == 800

\* resolution of a body position
PU == VU * TPS

(* The constants in model units.                                           *)

Gravity == (GRAVITY_MILLI * VU) \div 1000

MaxFallSpeed == MAX_FALL_SPEED * VU

JumpForce == JUMP_FORCE * VU

JetForce == JET_FORCE * VU

JetMaxVelocity == JET_MAX_VELOCITY * VU

FuelMax == FUEL_MAX * TPS

GroundY == GROUND_Y * PU

\* rate * deltaTime for a per-second rate in velocity units
TimesDt(rate, dt) == (rate * dt) \div TPS

-----------------------------------------------------------------------------
(* PhysicsBody                                                             *)

\* new PhysicsBody(initialPosition)
Ctor(p) ==
    [ state |-> [ position |-> [x |-> p.x, y |-> p.y, z |-> p.z],
                  velocity |-> [x |-> 0, y |-> 0, z |-> 0],
                  grounded |-> FALSE,
                  jumpHoldTime |-> 0,
                  lastJumpTime |-> 0,
                  jumpBufferTime |-> 0,
                  jetActive |-> FALSE,
                  fuel |-> FuelMax,
                  isRecharging |-> FALSE ],
      jumpPressed |-> FALSE,
      jetActive |-> FALSE ]

\* variant of JumpStep in which the impulse does not set jumpPressed
JumpStepNoLatch(b, jump) ==
    IF jump /\ ~b.jumpPressed /\ b.state.grounded
    THEN [b EXCEPT !.state.velocity.y = JumpForce,
                   !.state.grounded = FALSE,
                   !.state.jumpHoldTime = 0]
    ELSE IF jump /\ b.jumpPressed
    THEN b
    ELSE IF ~jump
    THEN [b EXCEPT !.jumpPressed = FALSE]
    ELSE b

\* update, lines 31-45: the jump edge
JumpStep(b, jump) ==
    IF jump /\ ~b.jumpPressed /\ b.state.grounded
    THEN [b EXCEPT !.state.velocity.y = JumpForce,
                   !.state.grounded = FALSE,
                   !.jumpPressed = TRUE,
                   !.state.jumpHoldTime = 0]
    ELSE IF jump /\ b.jumpPressed
    THEN b
    ELSE IF ~jump
    THEN [b EXCEPT !.jumpPressed = FALSE]
    ELSE b

\* variant of BoostedJetForce without the boost
BoostedJetForceNoBoost(vy) == JetForce

\* update, lines 51-59: the jet force, boosted while falling
BoostedJetForce(vy) ==
    IF vy < 0
    THEN (JetForce * (Abs(MaxFallSpeed) + Min(Abs(MaxFallSpeed), Abs(vy))))
             \div Abs(MaxFallSpeed)
    ELSE JetForce

\* variant of ConsumeFuel that burns nothing
ConsumeFuelFree(fuel, dt) == fuel

\* variant of ConsumeFuel without the Math.max(0, ...) floor
ConsumeFuelNoFloor(fuel, dt) == fuel - FUEL_CONSUMPTION * dt

\* variant of ConsumeFuel that leaves deltaTime out
ConsumeFuelIgnoresDt(fuel, dt) == Max(0, fuel - FUEL_CONSUMPTION * TPS)

\* update, line 76: fuel after one jetting tick
ConsumeFuel(fuel, dt) == Max(0, fuel - FUEL_CONSUMPTION * dt)

\* variant of RechargeFuel without the Math.min(MAX, ...) cap
RechargeFuelNoCap(fuel, grounded, dt) ==
    fuel + (IF grounded THEN FUEL_RECHARGE ELSE (FUEL_RECHARGE * 25) \div 100) * dt

\* update, lines 96-103: fuel after one recharging tick
RechargeFuel(fuel, grounded, dt) ==
    Min(FuelMax,
        fuel + (IF grounded THEN FUEL_RECHARGE ELSE (FUEL_RECHARGE * 25) \div 100) * dt)

\* variant of JetFires without the fuel test
JetFiresOnEmpty(b, jet) == jet

\* update, line 48: input.jet && this.state.fuel > 0
JetFires(b, jet) == jet /\ b.state.fuel > 0

\* variant of CapJet that does not cap
CapJetNone(vy) == vy

\* update, lines 65-67: the cap on the upward velocity under thrust
CapJet(vy) == IF vy > JetMaxVelocity THEN JetMaxVelocity ELSE vy

\* update, lines 48-105: jet propulsion, fuel consumption and recharge
JetStep(b, dt, jet) ==
    IF JetFires(b, jet)
    THEN LET vy1 == b.state.velocity.y + TimesDt(BoostedJetForce(b.state.velocity.y), dt)
             vy2 == CapJet(vy1)
             vx  == IF Abs(b.state.velocity.x) > 0
                    THEN (b.state.velocity.x * 95) \div 100
                    ELSE b.state.velocity.x
         IN [b EXCEPT !.state.velocity.y = vy2,
                      !.state.velocity.x = vx,
                      !.state.fuel = ConsumeFuel(b.state.fuel, dt),
                      !.jetActive = TRUE,
                      !.state.jetActive = TRUE,
                      !.state.isRecharging = FALSE]
    ELSE LET start == ~b.state.isRecharging /\ b.state.fuel < FuelMax
                      /\ (b.state.grounded \/ b.state.fuel * 10 > FuelMax)
             rech  == b.state.isRecharging \/ start
         IN [b EXCEPT !.jetActive = FALSE,
                      !.state.jetActive = FALSE,
                      !.state.isRecharging = rech,
                      !.state.fuel = IF rech
                                     THEN RechargeFuel(b.state.fuel, b.state.grounded, dt)
                                     ELSE b.state.fuel]

\* variant of ClampFall that does not clamp
ClampFallNone(vy) == vy

\* update, lines 111-113: the fall-speed clamp
ClampFall(vy) == IF vy < MaxFallSpeed THEN MaxFallSpeed ELSE vy

\* update, lines 108-113: gravity, then the clamp
GravityStep(b, dt) ==
    [b EXCEPT !.state.velocity.y = ClampFall(b.state.velocity.y + TimesDt(Gravity, dt))]

\* update, line 116: position.y += velocity.y * deltaTime
IntegrateStep(b, dt) ==
    [b EXCEPT !.state.position.y = b.state.position.y + b.state.velocity.y * dt]

\* variant of GroundStep that does not snap position.y to the ground
GroundStepNoSnap(b) ==
    IF b.state.position.y <= GroundY
    THEN [b EXCEPT !.state.velocity.y = 0, !.state.grounded = TRUE]
    ELSE [b EXCEPT !.state.grounded = FALSE]

\* variant of GroundStep that keeps velocity.y on landing
GroundStepKeepsVelocity(b) ==
    IF b.state.position.y <= GroundY
    THEN [b EXCEPT !.state.position.y = GroundY, !.state.grounded = TRUE]
    ELSE [b EXCEPT !.state.grounded = FALSE]

\* update, lines 119-125: ground collision
GroundStep(b) ==
    IF b.state.position.y <= GroundY
    THEN [b EXCEPT !.state.position.y = GroundY,
                   !.state.velocity.y = 0,
                   !.state.grounded = TRUE]
    ELSE [b EXCEPT !.state.grounded = FALSE]

\* variant of BookkeepStep that never resets lastJumpTime
BookkeepStepNoReset(b, dt) ==
    [b EXCEPT !.state.lastJumpTime = b.state.lastJumpTime + dt]

\* update, lines 128-132: lastJumpTime
BookkeepStep(b, dt) ==
    IF b.state.grounded
    THEN [b EXCEPT !.state.lastJumpTime = 0]
    ELSE [b EXCEPT !.state.lastJumpTime = b.state.lastJumpTime + dt]

\* update(deltaTime, {jump, jet}), the steps in the order of the code
UpdateBody(b, dt, jump, jet) ==
    BookkeepStep(GroundStep(IntegrateStep(GravityStep(JetStep(JumpStep(b, jump), dt, jet), dt), dt)), dt)

\* update, lines 32-38: the tick applies the jump impulse; only the impulse
\* clears the grounded flag in the jump step
Impulse(b, jump) == b.state.grounded /\ ~JumpStep(b, jump).state.grounded

\* no update made yet
NoJumps == [jump |-> FALSE, prev |-> FALSE, held |-> FALSE]

\* the record of the jump inputs after update(_, {jump}) on body b
TrackJump(h, b, jump) ==
    [jump |-> jump,
     prev |-> h.jump,
     held |-> IF Impulse(b, jump) THEN TRUE ELSE h.held /\ jump]

\* variant of SetPositionBody that also stops the body
SetPositionBodyStops(b, p) ==
    [b EXCEPT !.state.position = [x |-> p.x, y |-> p.y, z |-> p.z],
              !.state.velocity = [x |-> 0, y |-> 0, z |-> 0]]

\* setPosition(position)
SetPositionBody(b, p) ==
    [b EXCEPT !.state.position = [x |-> p.x, y |-> p.y, z |-> p.z]]

\* getState(): { ...this.state, jetActive: this.jetActive }.  The spread
\* copies the fields of state one level deep: the numbers and booleans by
\* value, the position and velocity objects by reference.
getState(b) == [b.state EXCEPT !.jetActive = b.jetActive]

\* the fields of a snapshot that are the body's own objects
SharedFields == {"position", "velocity"}

\* getPosition(): a new Vector3 with the three coordinates
getPosition(b) ==
    [x |-> b.state.position.x, y |-> b.state.position.y, z |-> b.state.position.z]

\* The body after a caller assigns v at path in a snapshot taken by
\* getState(): snapshot.fuel = v changes the snapshot only,
\* snapshot.position.y = v changes the object the body holds too.
WriteSnapshot(b, path, v) ==
    IF Len(path) = 2 /\ path[1] \in SharedFields
    THEN [b EXCEPT !.state[path[1]][path[2]] = v]
    ELSE b

\* isGrounded()
isGrounded(b) == b.state.grounded

\* isJetActive()
isJetActive(b) == b.jetActive

\* the read accessors of PhysicsBody
BodyAccessors == {"getState", "getPosition", "isGrounded", "isJetActive", "getFuelPercentage"}

\* variant of AfterAccessor in which isGrounded() refreshes the flag from
\* the position
AfterAccessorRefreshes(b, a) ==
    IF a = "isGrounded"
    THEN [b EXCEPT !.state.grounded = b.state.position.y <= GroundY]
    ELSE b

\* The body after a call of accessor a: lines 135-157 build their results
\* (a spread, a new Vector3, a number, a boolean) from reads of the fields
\* and assign to none of them.
AfterAccessor(b, a) == b

\* getFuelPercentage(): (fuel / MAX) * 100, in units of 1/PctScale percent
PctScale == FuelMax \div 100

getFuelPercentage(b) == (b.state.fuel * 100 * PctScale) \div FuelMax

-----------------------------------------------------------------------------
(* The host loop driving one PhysicsBody (CharacterController useFrame).   *)

\* metres to position units
Pos(m) == m * PU

\* tick lengths passed to update: 1/60 s, 0.1 s, and a 0.5 s frame hitch
\* (the controller passes the frame delta as it is)
DtSet == {1, 6, 30}

MaxTicks == 3

MaxSetPositions == 1

Input(dt, jump, jet) == [dt |-> dt, jump |-> jump, jet |-> jet]

\* n copies of input i
Rep(i, n) == [k \in 1..n |-> i]

\* the body after the update calls of the input sequence w
RECURSIVE RunInputs(_, _)
RunInputs(b, w) ==
    IF w = <<>> THEN b
    ELSE LET nb == UpdateBody(b, Head(w).dt, Head(w).jump, Head(w).jet)
         \* the test makes TLC compute nb before it descends
         IN  IF nb.state.fuel >= 0 THEN RunInputs(nb, Tail(w)) ELSE nb

\* Earlier play the exploration starts after: nothing; the jet held for
\* 9 s, 9.5 s and 10 s (fuel 15, 7.5 and 0 left, airborne); the jet held
\* until the fuel is empty, then the fall back to the ground.
Warmups ==
    { <<>>,
      Rep(Input(30, FALSE, TRUE), 18),
      Rep(Input(30, FALSE, TRUE), 19),
      Rep(Input(30, FALSE, TRUE), 20),
      Rep(Input(30, FALSE, TRUE), 20) \o Rep(Input(30, FALSE, FALSE), 4) }

\* the character is created on the ground plane
StartPositions == { [x |-> 0, y |-> Pos(0), z |-> 0] }

\* setPosition arguments: the controller's call (x advanced, y and z as read
\* back from the body) and overrides that place the body elsewhere
SetPositionArgs(b) ==
    { [x |-> b.state.position.x + 1, y |-> b.state.position.y, z |-> b.state.position.z],
      [x |-> 0, y |-> Pos(2), z |-> 0],
      [x |-> 0, y |-> Pos(-1), z |-> 0] }

NoCall == [op |-> "none", dt |-> 0, jump |-> FALSE, jet |-> FALSE]

IdleProj == [active |-> FALSE]

\* an instance matrix no setMatrixAt has written (the zero-filled buffer)
NoMatrix == [written |-> FALSE]

\* the mesh before any pool is in play
IdleMesh == [count |-> 0, instanceMatrix |-> <<>>]

ProjIdle ==
    /\ proj = IdleProj /\ plast = NoCall /\ pcalls = 0 /\ elapsed = 0

PoolIdle ==
    /\ projectiles = <<>> /\ poolLast = NoCall
    /\ spawns = 0 /\ frames = 0 /\ deacts = 0 /\ nextId = 0
    /\ mesh = IdleMesh

Init ==
    /\ body \in { RunInputs(Ctor(p), w) : p \in StartPositions, w \in Warmups }
    /\ last = [op |-> "init", dt |-> 0, jump |-> FALSE, jet |-> FALSE,
               position |-> body.state.position,
               pre |-> body, mid |-> body, jetted |-> body]
    /\ ticks = 0
    /\ setPositions = 0
    /\ yMoved = FALSE
    /\ fallTicks = 0
    /\ inFall = FALSE
    /\ jetTicks = 0
    /\ inJet = FALSE
    /\ jumpHist = NoJumps
    /\ ProjIdle
    /\ PoolIdle

\* physicsBodyRef.current.update(delta, {jump, jet})
Update ==
    /\ ticks < MaxTicks
    /\ \E dt \in DtSet, jump \in BOOLEAN, jet \in BOOLEAN :
          /\ body' = UpdateBody(body, dt, jump, jet)
          /\ last' = [op |-> "update", dt |-> dt, jump |-> jump, jet |-> jet,
                      position |-> body.state.position,
                      pre |-> body, mid |-> JumpStep(body, jump),
                      jetted |-> JetStep(JumpStep(body, jump), dt, jet)]
          /\ jumpHist' = TrackJump(jumpHist, body, jump)
    /\ ticks' = ticks + 1
    /\ yMoved' = FALSE
    /\ inFall' = FALSE
    /\ inJet' = FALSE
    /\ UNCHANGED <<setPositions, fallTicks, jetTicks, projVars, poolVars>>

\* physicsBodyRef.current.setPosition(position)
SetPosition ==
    /\ setPositions < MaxSetPositions
    /\ \E p \in SetPositionArgs(body) :
          /\ body' = SetPositionBody(body, p)
          /\ last' = [op |-> "setPosition", dt |-> 0, jump |-> FALSE, jet |-> FALSE,
                      position |-> p,
                      pre |-> body, mid |-> body, jetted |-> body]
          /\ yMoved' = (yMoved \/ p.y # body.state.position.y)
    /\ setPositions' = setPositions + 1
    /\ inFall' = FALSE
    /\ inJet' = FALSE
    /\ UNCHANGED <<ticks, fallTicks, jetTicks, jumpHist, projVars, poolVars>>

Next == Update \/ SetPosition

Spec == Init /\ [][Next]_vars

-----------------------------------------------------------------------------
(* A caller that keeps the object getState() returned and assigns to it.   *)

\* the places of a snapshot a caller assigns to
SnapshotPaths ==
    { <<"fuel">>, <<"lastJumpTime">>, <<"position", "y">>, <<"velocity", "y">> }

\* the numbers assigned
SnapshotValues == {0, 3 * VU}

\* const s = body.getState(); s.<path> = v
ModifySnapshot ==
    /\ \E path \in SnapshotPaths, v \in SnapshotValues :
          body' = WriteSnapshot(body, path, v)
    /\ last' = [op |-> "modifySnapshot", dt |-> 0, jump |-> FALSE, jet |-> FALSE,
                position |-> body.state.position,
                pre |-> body, mid |-> body, jetted |-> body]
    /\ inFall' = FALSE
    /\ inJet' = FALSE
    /\ UNCHANGED <<ticks, setPositions, yMoved, fallTicks, jetTicks, jumpHist,
                   projVars, poolVars>>

NextSnapshot == Update \/ ModifySnapshot

SpecSnapshot == Init /\ [][NextSnapshot]_vars

-----------------------------------------------------------------------------
(* Free fall: a body created at rest in the air, ticked at the fixed       *)
(* timestep with no jump and no jet; at any point the inputs may become    *)
(* arbitrary, which ends the scenario.                                     *)

FallHeights == { Pos(5), Pos(10), Pos(15), Pos(20) }

MaxFallTicks == 60

MaxDisturb == 1

InitFall ==
    /\ body \in { Ctor([x |-> 0, y |-> h, z |-> 0]) : h \in FallHeights }
    /\ last = [op |-> "init", dt |-> 0, jump |-> FALSE, jet |-> FALSE,
               position |-> body.state.position,
               pre |-> body, mid |-> body, jetted |-> body]
    /\ ticks = 0
    /\ setPositions = 0
    /\ yMoved = FALSE
    /\ fallTicks = 0
    /\ inFall = TRUE
    /\ jetTicks = 0
    /\ inJet = FALSE
    /\ jumpHist = NoJumps
    /\ ProjIdle
    /\ PoolIdle

\* update(1/60, {jump: false, jet: false})
FallTick ==
    /\ inFall
    /\ fallTicks < MaxFallTicks
    /\ body' = UpdateBody(body, 1, FALSE, FALSE)
    /\ last' = [op |-> "update", dt |-> 1, jump |-> FALSE, jet |-> FALSE,
                position |-> body.state.position,
                pre |-> body, mid |-> JumpStep(body, FALSE),
                jetted |-> JetStep(JumpStep(body, FALSE), 1, FALSE)]
    /\ jumpHist' = TrackJump(jumpHist, body, FALSE)
    /\ fallTicks' = fallTicks + 1
    /\ UNCHANGED <<ticks, setPositions, yMoved, inFall, jetTicks, inJet, projVars, poolVars>>

\* update with any inputs
Disturb ==
    /\ ticks < MaxDisturb
    /\ \E dt \in DtSet, jump \in BOOLEAN, jet \in BOOLEAN :
          /\ body' = UpdateBody(body, dt, jump, jet)
          /\ last' = [op |-> "update", dt |-> dt, jump |-> jump, jet |-> jet,
                      position |-> body.state.position,
                      pre |-> body, mid |-> JumpStep(body, jump),
                      jetted |-> JetStep(JumpStep(body, jump), dt, jet)]
          /\ jumpHist' = TrackJump(jumpHist, body, jump)
    /\ ticks' = ticks + 1
    /\ inFall' = FALSE
    /\ inJet' = FALSE
    /\ UNCHANGED <<setPositions, yMoved, fallTicks, jetTicks, projVars, poolVars>>

NextFall == FallTick \/ Disturb

SpecFall == InitFall /\ [][NextFall]_vars

-----------------------------------------------------------------------------
(* Jumping: a body created on the ground plane, or one already at rest on  *)
(* it, ticked at 0.1 s with the jump input free and the jet not used.      *)

MaxJumpTicks == 12

InitJump ==
    /\ body \in { Ctor([x |-> 0, y |-> Pos(0), z |-> 0]),
                  RunInputs(Ctor([x |-> 0, y |-> Pos(0), z |-> 0]),
                            <<Input(1, FALSE, FALSE)>>) }
    /\ last = [op |-> "init", dt |-> 0, jump |-> FALSE, jet |-> FALSE,
               position |-> body.state.position,
               pre |-> body, mid |-> body, jetted |-> body]
    /\ ticks = 0
    /\ setPositions = 0
    /\ yMoved = FALSE
    /\ fallTicks = 0
    /\ inFall = FALSE
    /\ jetTicks = 0
    /\ inJet = FALSE
    /\ jumpHist = NoJumps
    /\ ProjIdle
    /\ PoolIdle

\* update(0.1, {jump, jet: false})
JumpTick ==
    /\ ticks < MaxJumpTicks
    /\ \E jump \in BOOLEAN :
          /\ body' = UpdateBody(body, 6, jump, FALSE)
          /\ last' = [op |-> "update", dt |-> 6, jump |-> jump, jet |-> FALSE,
                      position |-> body.state.position,
                      pre |-> body, mid |-> JumpStep(body, jump),
                      jetted |-> JetStep(JumpStep(body, jump), 6, FALSE)]
          /\ jumpHist' = TrackJump(jumpHist, body, jump)
    /\ ticks' = ticks + 1
    /\ UNCHANGED <<setPositions, yMoved, fallTicks, inFall, jetTicks, inJet,
                   projVars, poolVars>>

NextJump == JumpTick

SpecJump == InitJump /\ [][NextJump]_vars

-----------------------------------------------------------------------------
(* The loop that never stops: update is called with the fixed tick of      *)
(* 0.1 s for as long as the character lives.  No call is counted, so the   *)
(* behaviours are infinite.                                                *)

\* update(0.1, {jump, jet})
TickForever(jump, jet) ==
    /\ body' = UpdateBody(body, 6, jump, jet)
    /\ last' = [op |-> "update", dt |-> 6, jump |-> jump, jet |-> jet,
                position |-> body.state.position,
                pre |-> body, mid |-> JumpStep(body, jump),
                jetted |-> JetStep(JumpStep(body, jump), 6, jet)]
    /\ jumpHist' = TrackJump(jumpHist, body, jump)
    /\ UNCHANGED <<ticks, setPositions, yMoved, fallTicks, inFall, jetTicks, inJet,
                   projVars, poolVars>>

\* update(0.1, {jump, jet: false}): the jet is not requested
NoJetTick == \E jump \in BOOLEAN : TickForever(jump, FALSE)

NextRecharge == NoJetTick

\* the frame loop keeps calling update
SpecRecharge == Init /\ [][NextRecharge]_vars /\ WF_vars(NoJetTick)

\* update(0.5, {jump: false, jet}).  With a tick of 0.5 s the jump input
\* changes jumpPressed only (an impulse of 10 is under one tick of gravity,
\* 12.26, and with thrust the cap gives 15 with or without it), so it is
\* left out.  The calls are not recorded in last and jumpHist: the state is
\* the body alone.
AnyTick ==
    /\ \E jet \in BOOLEAN :
          body' = UpdateBody(body, 30, FALSE, jet)
    /\ UNCHANGED <<last, ticks, setPositions, yMoved, fallTicks, inFall, jetTicks, inJet,
                   jumpHist, projVars, poolVars>>

NextAir == AnyTick

\* the frame loop keeps calling update
SpecAir == InitJump /\ [][NextAir]_vars /\ WF_vars(AnyTick)

-----------------------------------------------------------------------------
(* Jet hold: a grounded body with full fuel, ticked at the fixed timestep  *)
(* with the jet held; at any point the inputs may become arbitrary, which  *)
(* ends the scenario.                                                      *)

MaxJetTicks == 60

\* a body created on the ground plane is grounded by its first update
InitJet ==
    /\ body = RunInputs(Ctor([x |-> 0, y |-> Pos(0), z |-> 0]), <<Input(1, FALSE, FALSE)>>)
    /\ last = [op |-> "init", dt |-> 0, jump |-> FALSE, jet |-> FALSE,
               position |-> body.state.position,
               pre |-> body, mid |-> body, jetted |-> body]
    /\ ticks = 0
    /\ setPositions = 0
    /\ yMoved = FALSE
    /\ fallTicks = 0
    /\ inFall = FALSE
    /\ jetTicks = 0
    /\ inJet = TRUE
    /\ jumpHist = NoJumps
    /\ ProjIdle
    /\ PoolIdle

\* update(1/60, {jump: false, jet: true})
JetTick ==
    /\ inJet
    /\ jetTicks < MaxJetTicks
    /\ body' = UpdateBody(body, 1, FALSE, TRUE)
    /\ last' = [op |-> "update", dt |-> 1, jump |-> FALSE, jet |-> TRUE,
                position |-> body.state.position,
                pre |-> body, mid |-> JumpStep(body, FALSE),
                jetted |-> JetStep(JumpStep(body, FALSE), 1, TRUE)]
    /\ jumpHist' = TrackJump(jumpHist, body, FALSE)
    /\ jetTicks' = jetTicks + 1
    /\ UNCHANGED <<ticks, setPositions, yMoved, fallTicks, inFall, inJet, projVars, poolVars>>

NextJet == JetTick \/ Disturb

SpecJet == InitJet /\ [][NextJet]_vars

-----------------------------------------------------------------------------
(* Jet held past empty: the same grounded, full-fuel body with the jet     *)
(* held in every tick of 0.1 s, through the climb, the empty tank, the     *)
(* fall and the landing.                                                   *)

MaxDryTicks == 200

\* update(0.1, {jump: false, jet: true})
DryTick ==
    /\ inJet
    /\ jetTicks < MaxDryTicks
    /\ body' = UpdateBody(body, 6, FALSE, TRUE)
    /\ last' = [op |-> "update", dt |-> 6, jump |-> FALSE, jet |-> TRUE,
                position |-> body.state.position,
                pre |-> body, mid |-> JumpStep(body, FALSE),
                jetted |-> JetStep(JumpStep(body, FALSE), 6, TRUE)]
    /\ jumpHist' = TrackJump(jumpHist, body, FALSE)
    /\ jetTicks' = jetTicks + 1
    /\ UNCHANGED <<ticks, setPositions, yMoved, fallTicks, inFall, inJet, projVars, poolVars>>

NextDry == DryTick

SpecDry == InitJet /\ [][NextDry]_vars

-----------------------------------------------------------------------------
(* Claims about PhysicsBody                                                *)

\* C1: after every update call 0 <= fuel <= jetFuelMax, and so
\* getFuelPercentage() lies in [0, 100].
C1_FuelBounds ==
    /\ 0 <= body.state.fuel
    /\ body.state.fuel <= FuelMax
    /\ 0 <= getFuelPercentage(body)
    /\ getFuelPercentage(body) <= 100 * PctScale

\* a jetting tick that asks for more fuel than is left has run
C1_Witness ==
    /\ last.op = "update"
    /\ last.jet
    /\ last.pre.state.fuel > 0
    /\ last.pre.state.fuel < FUEL_CONSUMPTION * last.dt
    /\ body.state.fuel = 0

\* C2: after every update call position.y >= groundY, and grounded holds
\* exactly when position.y == groundY and velocity.y == 0.
C2_GroundClamp ==
    last.op = "update" =>
        /\ body.state.position.y >= GroundY
        /\ body.state.grounded <=>
               (body.state.position.y = GroundY /\ body.state.velocity.y = 0)

\* an airborne body has landed in an update whose integration went below
\* the ground
C2_Witness ==
    /\ last.op = "update"
    /\ ~last.pre.state.grounded
    /\ last.pre.state.position.y > GroundY
    /\ last.pre.state.position.y + MaxFallSpeed * last.dt < GroundY
    /\ body.state.velocity.y = 0
    /\ body.state.grounded

\* C3, as claimed: in every state reached by update and setPosition calls,
\* grounded implies position.y == groundY and velocity.y == 0.
C3_Original ==
    body.state.grounded =>
        (body.state.position.y = GroundY /\ body.state.velocity.y = 0)

\* C3, amended: grounded implies velocity.y == 0 in every state, and
\* grounded implies position.y == groundY in every state in which no
\* setPosition since the last update has changed position.y.
C3_GroundedAtRest ==
    body.state.grounded =>
        /\ body.state.velocity.y = 0
        /\ ~yMoved => body.state.position.y = GroundY

\* the controller's setPosition (same y) has acted on a grounded body
C3_Witness ==
    /\ last.op = "setPosition"
    /\ last.pre.state.grounded
    /\ body.state.position.x # last.pre.state.position.x
    /\ ~yMoved
    /\ body.state.grounded

\* the fall clamp is first reached on this tick of a free fall from rest
ClampTick == (Abs(MaxFallSpeed) * TPS) \div Abs(Gravity) + 1

\* C4: after every update velocity.y >= maxFallSpeed; in free fall from
\* rest at dt = 1/60 velocity.y falls tick by tick until it is clamped, and
\* a body still airborne from the clamp tick on (which is within 60 ticks)
\* has velocity.y == maxFallSpeed.
C4_FallClamp ==
    /\ body.state.velocity.y >= MaxFallSpeed
    /\ (inFall /\ fallTicks > 0 /\ ~body.state.grounded) =>
          /\ body.state.velocity.y <= last.pre.state.velocity.y
          /\ last.pre.state.velocity.y > MaxFallSpeed =>
                 body.state.velocity.y < last.pre.state.velocity.y
    /\ ClampTick <= 60
    /\ (inFall /\ fallTicks >= ClampTick /\ ~body.state.grounded) =>
          body.state.velocity.y = MaxFallSpeed

\* a free fall has reached the clamp within 60 ticks, still airborne
C4_Witness ==
    /\ inFall
    /\ fallTicks <= 60
    /\ ~body.state.grounded
    /\ last.pre.state.velocity.y + TimesDt(Gravity, 1) < MaxFallSpeed
    /\ body.state.velocity.y = MaxFallSpeed

\* C5, as claimed: from a grounded body at rest (jump not held before), one
\* update with jump=true sets velocity.y to jumpForce before gravity and
\* ends with grounded == false, for every positive dt.
C5_JumpLeavesGround ==
    ( /\ last.op = "update"
      /\ last.dt > 0
      /\ last.jump
      /\ last.pre.state.grounded
      /\ ~last.pre.jumpPressed
      /\ last.pre.state.velocity = [x |-> 0, y |-> 0, z |-> 0] )
    => ( /\ last.mid.state.velocity.y = JumpForce
         /\ ~body.state.grounded )

\* the velocity the jet step of the last update added, in body velocity
\* units
JetGain == last.jetted.state.velocity.y - last.mid.state.velocity.y

\* jetForce * (1 + min(1, |vy| / |maxFallSpeed|)) for vy < 0 and jetForce
\* for vy >= 0, times |maxFallSpeed| and in m/s^2
ClaimedForceScaled(vy) ==
    IF vy < 0
    THEN JET_FORCE * (Abs(MaxFallSpeed) + Min(Abs(MaxFallSpeed), Abs(vy)))
    ELSE JET_FORCE * Abs(MaxFallSpeed)

\* C14: in an update with jet=true and fuel > 0 whose result stays under the
\* velocity cap, the velocity gained is force * dt with force equal to
\* jetForce * (1 + min(1, |vy| / |maxFallSpeed|)) when vy < 0 (to within the
\* rounding of the fixed-point force) and exactly jetForce when vy >= 0; the
\* gain while falling is at least the gain at rest or ascending for the
\* same dt, and at most that of 2 * jetForce.
C14_JetBoost ==
    ( /\ last.op = "update"
      /\ last.jet
      /\ last.mid.state.fuel > 0
      /\ last.jetted.state.velocity.y < JetMaxVelocity )
    => LET vy == last.mid.state.velocity.y
       IN  /\ vy >= 0 => JetGain = TimesDt(JetForce, last.dt)
           /\ vy < 0 =>
                 /\ JetGain * TPS * Abs(MAX_FALL_SPEED)
                        <= ClaimedForceScaled(vy) * last.dt
                 /\ ClaimedForceScaled(vy) * last.dt
                        < (JetGain + 1) * TPS * Abs(MAX_FALL_SPEED)
                              + last.dt * Abs(MAX_FALL_SPEED)
           /\ JetGain >= TimesDt(JetForce, last.dt)
           /\ JetGain <= TimesDt(2 * JetForce, last.dt)

\* the jet has fired on a body falling at the fall-speed limit and has
\* applied twice the jet force
C14_Witness ==
    /\ last.op = "update"
    /\ last.jet
    /\ last.mid.state.fuel > 0
    /\ last.mid.state.velocity.y = MaxFallSpeed
    /\ last.jetted.state.velocity.y < JetMaxVelocity
    /\ JetGain = TimesDt(2 * JetForce, last.dt)

\* C17: setPosition(p) sets position to p's x, y, z and leaves velocity,
\* grounded, fuel, jetActive, isRecharging, lastJumpTime, the jump hold and
\* buffer times and the jump edge flag as they were.
C17_SetPositionFrame ==
    last.op = "setPosition" =>
        /\ body.state.position.x = last.position.x
        /\ body.state.position.y = last.position.y
        /\ body.state.position.z = last.position.z
        /\ body.state.velocity = last.pre.state.velocity
        /\ body.state.grounded = last.pre.state.grounded
        /\ body.state.fuel = last.pre.state.fuel
        /\ body.state.jetActive = last.pre.state.jetActive
        /\ body.jetActive = last.pre.jetActive
        /\ body.state.isRecharging = last.pre.state.isRecharging
        /\ body.state.lastJumpTime = last.pre.state.lastJumpTime
        /\ body.state.jumpHoldTime = last.pre.state.jumpHoldTime
        /\ body.state.jumpBufferTime = last.pre.state.jumpBufferTime
        /\ body.jumpPressed = last.pre.jumpPressed

\* setPosition has moved an airborne body that is rising with the jump
\* held and fuel spent to another height
C17_Witness ==
    /\ last.op = "setPosition"
    /\ last.position.y # last.pre.state.position.y
    /\ ~last.pre.state.grounded
    /\ last.pre.state.velocity.y > 0
    /\ last.pre.state.fuel < FuelMax
    /\ last.pre.state.lastJumpTime > 0
    /\ last.pre.jumpPressed
    /\ body.state.position.y = last.position.y
    /\ body.state.velocity.y > 0

\* C18: nothing a caller assigns in the object getState() returned, its
\* position and velocity fields included, changes the body: getState() and
\* getPosition() return afterwards what they returned before, and the body
\* an update starts from is the same.
C18_SnapshotIsACopy ==
    last.op = "modifySnapshot" =>
        /\ getState(body) = getState(last.pre)
        /\ getPosition(body) = getPosition(last.pre)
        /\ body = last.pre

\* C15: from a grounded body with fuel 150/150, after k <= 60 ticks of
\* dt = 1/60 with the jet held the fuel is 150 - consumptionRate * k / 60
\* (so 15 units less after 60 ticks, with no recharge in between), and in
\* each of those ticks velocity.y rises and stays <= jetMaxVelocity.
C15_JetHold ==
    inJet =>
        /\ body.state.fuel = FuelMax - FUEL_CONSUMPTION * jetTicks
        /\ jetTicks = TPS => FuelMax - body.state.fuel = FUEL_CONSUMPTION * TPS
        /\ ~body.state.isRecharging
        /\ body.state.velocity.y <= JetMaxVelocity
        /\ jetTicks > 0 => body.state.velocity.y > last.pre.state.velocity.y

\* the jet has been held for 60 ticks from the grounded, full-fuel body
C15_Witness ==
    /\ inJet
    /\ jetTicks = 60
    /\ last.op = "update"
    /\ last.jet
    /\ body.state.fuel = (FUEL_MAX - FUEL_CONSUMPTION) * TPS
    /\ body.state.velocity.y > 0

-----------------------------------------------------------------------------
(* Projectile                                                              *)

\* resolution of a projectile velocity: 1/16000 m/s
PVU == 16000

\* resolution of a projectile position
PPU == PVU * TPS

\* metres (given in hundredths) to projectile position units
PPos(cm) == cm * (PPU \div 100)

\* PHYSICS.GROUND.Y_POSITION in projectile position units
PGroundY == GROUND_Y * PPU

\* PHYSICS.GRAVITY * percent/100 in projectile velocity units per second
BulletGravity(percent) == (GRAVITY_MILLI * percent * (PVU \div 1000)) \div 100

DEFAULT_SPEED == 30

\* 3.0 seconds
DEFAULT_LIFETIME == 3

\* 0.2, in hundredths of a metre
DEFAULT_SIZE_CM == 20

\* gravity ?? (PHYSICS.GRAVITY * 0.05)
DEFAULT_GRAVITY_PERCENT == 5

\* An optional config field is <<>> (left out) or <<v>>.
\* a || b of JavaScript: b when the field is left out or is 0
OrDefault(opt, d) == IF opt = <<>> THEN d ELSE IF opt[1] = 0 THEN d ELSE opt[1]

\* a ?? b of JavaScript: b only when the field is left out
NullishDefault(opt, d) == IF opt = <<>> THEN d ELSE opt[1]

\* floor of the square root
ISqrt(n) == CHOOSE r \in 0..n : r * r <= n /\ (r + 1) * (r + 1) > n

\* Vector3.length()
Length(v) == ISqrt(v.x * v.x + v.y * v.y + v.z * v.z)

\* Vector3.normalize().multiplyScalar(s): normalize divides by length() || 1
NormalizeScaled(v, s) ==
    LET len == IF Length(v) = 0 THEN 1 ELSE Length(v)
    IN  [x |-> (v.x * s) \div len, y |-> (v.y * s) \div len, z |-> (v.z * s) \div len]

\* new Projectile(config); id stands for the identity of the object
ProjCtor(config, id) ==
    LET speed == OrDefault(config.speed, DEFAULT_SPEED * PVU)
        life  == OrDefault(config.lifetime, DEFAULT_LIFETIME * TPS)
    IN  [ id |-> id,
          position |-> config.initialPosition,
          velocity |-> NormalizeScaled(config.initialVelocity, speed),
          gravity |-> NullishDefault(config.gravity, BulletGravity(DEFAULT_GRAVITY_PERCENT)),
          maxLifetime |-> life,
          lifetime |-> life,
          active |-> TRUE,
          size |-> OrDefault(config.size, PPos(DEFAULT_SIZE_CM)) ]

\* update, lines 69-73: velocity.y after gravity, position.y after integration
IntegratedVy(p, dt) == p.velocity.y + (p.gravity * dt) \div TPS

IntegratedY(p, dt) == p.position.y + IntegratedVy(p, dt) * dt

\* update, line 77: the height of a projectile lying on the ground
RestHeight(p) == PGroundY + p.size \div 2

\* variant of ProjUpdate that updates inactive projectiles too
ProjUpdateNoActiveCheck(p, dt) ==
    IF p.lifetime - dt <= 0
    THEN [p EXCEPT !.lifetime = p.lifetime - dt, !.active = FALSE]
    ELSE [p EXCEPT !.lifetime = p.lifetime - dt,
                   !.velocity.y = IntegratedVy(p, dt),
                   !.position = [x |-> p.position.x + p.velocity.x * dt,
                                 y |-> IF IntegratedY(p, dt) <= RestHeight(p)
                                       THEN RestHeight(p) ELSE IntegratedY(p, dt),
                                 z |-> p.position.z + p.velocity.z * dt],
                   !.active = IntegratedY(p, dt) > RestHeight(p)]

\* variant of ProjUpdate that expires a projectile only below lifetime 0
ProjUpdateLateExpiry(p, dt) ==
    IF ~p.active THEN p
    ELSE IF p.lifetime - dt < 0
    THEN [p EXCEPT !.lifetime = p.lifetime - dt, !.active = FALSE]
    ELSE [p EXCEPT !.lifetime = p.lifetime - dt,
                   !.velocity.y = IntegratedVy(p, dt),
                   !.position = [x |-> p.position.x + p.velocity.x * dt,
                                 y |-> IF IntegratedY(p, dt) <= RestHeight(p)
                                       THEN RestHeight(p) ELSE IntegratedY(p, dt),
                                 z |-> p.position.z + p.velocity.z * dt],
                   !.active = IntegratedY(p, dt) > RestHeight(p)]

\* variant of ProjUpdate that deactivates on the ground without snapping
ProjUpdateNoSnap(p, dt) ==
    IF ~p.active THEN p
    ELSE IF p.lifetime - dt <= 0
    THEN [p EXCEPT !.lifetime = p.lifetime - dt, !.active = FALSE]
    ELSE [p EXCEPT !.lifetime = p.lifetime - dt,
                   !.velocity.y = IntegratedVy(p, dt),
                   !.position = [x |-> p.position.x + p.velocity.x * dt,
                                 y |-> IntegratedY(p, dt),
                                 z |-> p.position.z + p.velocity.z * dt],
                   !.active = IntegratedY(p, dt) > RestHeight(p)]

\* variant of ProjUpdate that applies no gravity
ProjUpdateNoGravity(p, dt) ==
    IF ~p.active THEN p
    ELSE IF p.lifetime - dt <= 0
    THEN [p EXCEPT !.lifetime = p.lifetime - dt, !.active = FALSE]
    ELSE [p EXCEPT !.lifetime = p.lifetime - dt,
                   !.position = [x |-> p.position.x + p.velocity.x * dt,
                                 y |-> IF p.position.y + p.velocity.y * dt <= RestHeight(p)
                                       THEN RestHeight(p)
                                       ELSE p.position.y + p.velocity.y * dt,
                                 z |-> p.position.z + p.velocity.z * dt],
                   !.active = p.position.y + p.velocity.y * dt > RestHeight(p)]

\* update(deltaTime)
ProjUpdate(p, dt) ==
    IF ~p.active THEN p
    ELSE IF p.lifetime - dt <= 0
    THEN [p EXCEPT !.lifetime = p.lifetime - dt, !.active = FALSE]
    ELSE [p EXCEPT !.lifetime = p.lifetime - dt,
                   !.velocity.y = IntegratedVy(p, dt),
                   !.position = [x |-> p.position.x + p.velocity.x * dt,
                                 y |-> IF IntegratedY(p, dt) <= RestHeight(p)
                                       THEN RestHeight(p) ELSE IntegratedY(p, dt),
                                 z |-> p.position.z + p.velocity.z * dt],
                   !.active = IntegratedY(p, dt) > RestHeight(p)]

\* the boolean update returns
ProjUpdateResult(p, dt) == ProjUpdate(p, dt).active

\* isActive()
isActive(p) == p.active

\* deactivate()
ProjDeactivate(p) == [p EXCEPT !.active = FALSE]

\* the read accessors of Projectile
ProjAccessors == {"getMatrix", "isActive"}

\* The projectile after a call of accessor a: getMatrix works on
\* velocity.clone() and position.clone() (lines 105, 116, 122) and on new
\* objects, isActive returns the flag.
AfterProjAccessor(p, a) == p

-----------------------------------------------------------------------------
(* One Projectile driven through its methods.                              *)

Vec(x, y, z) == [x |-> x, y |-> y, z |-> z]

Config(pos, dir, speed, gravity, lifetime, size) ==
    [ initialPosition |-> pos, initialVelocity |-> dir, speed |-> speed,
      gravity |-> gravity, lifetime |-> lifetime, size |-> size ]

\* the config of CharacterController's shoot(), from a muzzle 1.5 m up,
\* aimed along z or at the ground
ShootConfig(dir) ==
    Config(Vec(0, PPos(150), 0), dir, <<50 * PVU>>, <<BulletGravity(2)>>,
           <<5 * TPS>>, <<PPos(20)>>)

ProjConfigs ==
    { ShootConfig(Vec(0, 0, 1)),
      ShootConfig(Vec(0, -1, 0)),
      \* dropped from 2 m with every default
      Config(Vec(0, PPos(200), 0), Vec(0, -2, 0), <<>>, <<>>, <<>>, <<>>),
      \* dropped from 100 m with a lifetime of 0.2 s
      Config(Vec(0, PPos(10000), 0), Vec(0, -1, 0), <<>>, <<>>, <<12>>, <<>>),
      \* dropped from 5 cm, below the height of a projectile lying on the ground
      Config(Vec(0, PPos(5), 0), Vec(0, -1, 0), <<>>, <<>>, <<>>, <<>>),
      \* fired along a slope, lifetime 0.1 s
      Config(Vec(0, PPos(200), 0), Vec(3, -4, 0), <<50 * PVU>>, <<>>, <<6>>, <<>>),
      \* fired level without gravity, lifetime 0.5 s
      Config(Vec(0, PPos(100), 0), Vec(1, 0, 0), <<>>, <<0>>, <<30>>, <<>>) }

\* tick lengths passed to Projectile.update
ProjDtSet == {1, 6, 30}

MaxProjCalls == 5

BodyIdle ==
    /\ body = Ctor(Vec(0, 0, 0))
    /\ last = NoCall
    /\ ticks = 0 /\ setPositions = 0 /\ yMoved = FALSE
    /\ fallTicks = 0 /\ inFall = FALSE
    /\ jetTicks = 0 /\ inJet = FALSE
    /\ jumpHist = NoJumps

InitProjectile ==
    /\ proj \in { ProjCtor(c, 1) : c \in ProjConfigs }
    /\ plast = [op |-> "new", dt |-> 0, pre |-> proj, ret |-> TRUE]
    /\ pcalls = 0
    /\ elapsed = 0
    /\ BodyIdle
    /\ PoolIdle

\* projectile.update(deltaTime)
CallUpdate ==
    /\ pcalls < MaxProjCalls
    /\ \E dt \in ProjDtSet :
          /\ proj' = ProjUpdate(proj, dt)
          /\ plast' = [op |-> "update", dt |-> dt, pre |-> proj,
                       ret |-> ProjUpdateResult(proj, dt)]
          /\ elapsed' = elapsed + dt
    /\ pcalls' = pcalls + 1
    /\ UNCHANGED <<bodyVars, poolVars>>

\* projectile.deactivate()
CallDeactivate ==
    /\ pcalls < MaxProjCalls
    /\ proj' = ProjDeactivate(proj)
    /\ plast' = [op |-> "deactivate", dt |-> 0, pre |-> proj, ret |-> TRUE]
    /\ pcalls' = pcalls + 1
    /\ UNCHANGED <<elapsed, bodyVars, poolVars>>

\* projectile.getMatrix(): builds a new Matrix4 from clones of the fields
CallGetMatrix ==
    /\ pcalls < MaxProjCalls
    /\ proj' = proj
    /\ plast' = [op |-> "getMatrix", dt |-> 0, pre |-> proj, ret |-> TRUE]
    /\ pcalls' = pcalls + 1
    /\ UNCHANGED <<elapsed, bodyVars, poolVars>>

NextProjectile == CallUpdate \/ CallDeactivate \/ CallGetMatrix

SpecProjectile == InitProjectile /\ [][NextProjectile]_vars

-----------------------------------------------------------------------------
(* The renderer's reads: either a body or a projectile is in play, and     *)
(* between its updates the read accessors are called on it.                *)

InitRead == Init \/ InitProjectile

\* body.update(...)
TickBody ==
    /\ last.op # "none"
    /\ Disturb

\* body.getState() / getPosition() / isGrounded() / isJetActive() /
\* getFuelPercentage()
ReadBody ==
    /\ last.op # "none"
    /\ \E a \in BodyAccessors :
          /\ body' = AfterAccessor(body, a)
          /\ last' = [op |-> a, dt |-> 0, jump |-> FALSE, jet |-> FALSE,
                      position |-> body.state.position,
                      pre |-> body, mid |-> body, jetted |-> body]
    /\ UNCHANGED <<ticks, setPositions, yMoved, fallTicks, inFall, jetTicks, inJet,
                   jumpHist, projVars, poolVars>>

\* projectile.update(deltaTime)
TickProj ==
    /\ plast.op # "none"
    /\ CallUpdate

\* projectile.getMatrix() / isActive()
ReadProj ==
    /\ plast.op # "none"
    /\ \E a \in ProjAccessors :
          /\ proj' = AfterProjAccessor(proj, a)
          /\ plast' = [op |-> a, dt |-> 0, pre |-> proj, ret |-> isActive(proj)]
    /\ UNCHANGED <<pcalls, elapsed, bodyVars, poolVars>>

NextRead == TickBody \/ ReadBody \/ TickProj \/ ReadProj

SpecRead == InitRead /\ [][NextRead]_vars

-----------------------------------------------------------------------------
(* Level shot: a projectile fired horizontally from 5 m up at speed 50     *)
(* with the default gravity, lifetime and size, updated at the fixed       *)
(* timestep.                                                               *)

LevelShotConfig ==
    Config(Vec(0, PPos(500), 0), Vec(0, 0, 1), <<50 * PVU>>, <<>>, <<>>, <<>>)

MaxShotTicks == 200

InitLevelShot ==
    /\ proj = ProjCtor(LevelShotConfig, 1)
    /\ plast = [op |-> "new", dt |-> 0, pre |-> proj, ret |-> TRUE]
    /\ pcalls = 0
    /\ elapsed = 0
    /\ BodyIdle
    /\ PoolIdle

\* projectile.update(1/60)
ShotTick ==
    /\ pcalls < MaxShotTicks
    /\ proj' = ProjUpdate(proj, 1)
    /\ plast' = [op |-> "update", dt |-> 1, pre |-> proj,
                 ret |-> ProjUpdateResult(proj, 1)]
    /\ elapsed' = elapsed + 1
    /\ pcalls' = pcalls + 1
    /\ UNCHANGED <<bodyVars, poolVars>>

NextLevelShot == ShotTick

SpecLevelShot == InitLevelShot /\ [][NextLevelShot]_vars

-----------------------------------------------------------------------------
(* Construction: new Projectile(config) for configs whose optional fields  *)
(* are left out, 0, or a positive value.                                   *)

\* an optional field: left out, 0, or v
Optional(v) == { <<>>, <<0>>, <<v>> }

CtorConfigs ==
    { Config(Vec(0, PPos(150), 0), dir, speed, gravity, lifetime, size) :
        dir \in { Vec(0, 0, 1), Vec(0, -1, 0) },
        speed \in Optional(50 * PVU),
        gravity \in Optional(BulletGravity(2)),
        lifetime \in Optional(5 * TPS),
        size \in Optional(PPos(10)) }

MaxCtorCalls == 1

InitCtor ==
    /\ ProjIdle
    /\ BodyIdle
    /\ PoolIdle

\* new Projectile(config)
Construct ==
    /\ pcalls < MaxCtorCalls
    /\ \E c \in CtorConfigs :
          /\ proj' = ProjCtor(c, pcalls + 1)
          /\ plast' = [op |-> "new", dt |-> 0, pre |-> proj, ret |-> TRUE, config |-> c]
    /\ pcalls' = pcalls + 1
    /\ UNCHANGED <<elapsed, bodyVars, poolVars>>

NextCtor == Construct

SpecCtor == InitCtor /\ [][NextCtor]_vars

-----------------------------------------------------------------------------
(* Claims about Projectile                                                 *)

C7_InactiveIsInert ==
    [][ ~proj.active =>
          /\ ~proj'.active
          /\ (plast'.op = "update" => proj' = proj) ]_vars

\* an update call has been made on an inactive projectile
C7_Witness ==
    /\ plast.op = "update"
    /\ ~plast.pre.active
    /\ plast.pre.lifetime > 0
    /\ ~proj.active

\* the projectile moves straight down
StraightDown(p) == p.velocity.x = 0 /\ p.velocity.z = 0 /\ p.velocity.y < 0

\* C8, as claimed: a projectile with straight-down velocity that is
\* deactivated by an update is deactivated on the tick that takes it to
\* groundY + size/2, and sits exactly there.
C8_Original ==
    ( /\ plast.op = "update"
      /\ plast.pre.active
      /\ plast.pre.position.y > PGroundY
      /\ StraightDown(plast.pre) )
    => ( /\ ~proj.active <=> IntegratedY(plast.pre, plast.dt) <= RestHeight(proj)
         /\ ~proj.active => proj.position.y = RestHeight(proj) )

\* C8, amended: in an update tick of an active straight-down projectile in
\* which the lifetime does not expire, the projectile becomes inactive
\* exactly when its integrated position.y is <= groundY + size/2, its
\* position.y is then exactly groundY + size/2, and it never ends such a
\* tick below that height.
C8_GroundImpact ==
    ( /\ plast.op = "update"
      /\ plast.pre.active
      /\ plast.pre.position.y > PGroundY
      /\ StraightDown(plast.pre)
      /\ plast.pre.lifetime - plast.dt > 0 )
    => ( /\ ~proj.active <=> IntegratedY(plast.pre, plast.dt) <= RestHeight(proj)
         /\ ~proj.active => proj.position.y = RestHeight(proj)
         /\ proj.position.y >= RestHeight(proj) )

\* a falling projectile has gone through the ground height in one tick
C8_Witness ==
    /\ plast.op = "update"
    /\ plast.pre.active
    /\ StraightDown(plast.pre)
    /\ plast.pre.position.y > RestHeight(proj)
    /\ IntegratedY(plast.pre, plast.dt) < RestHeight(proj)
    /\ proj.position.y = RestHeight(proj)
    /\ ~proj.active

C16_LevelShotLands ==
    /\ pcalls >= DEFAULT_LIFETIME * TPS => ~proj.active
    /\ ~proj.active =>
          /\ proj.lifetime > 0
          /\ proj.position.y = PPos(10)
          /\ proj.position.y = PGroundY + proj.size \div 2
          /\ proj.position.z > 0

\* the tick that took the projectile to the ground has been made
C16_Witness ==
    /\ plast.op = "update"
    /\ plast.pre.active
    /\ plast.pre.position.y > PPos(10)
    /\ plast.pre.lifetime = proj.lifetime + 1
    /\ ~proj.active
    /\ proj.position.y = PPos(10)
    /\ proj.velocity.z = 50 * PVU

\* the value an optional config field stands for: the one supplied (0
\* included), or the default d when it is left out
SuppliedOr(opt, d) == IF opt = <<>> THEN d ELSE opt[1]

\* C20: a projectile constructed from a config has, for each optional
\* field, the supplied value (0 included) or else the default: speed 30
\* along the given unit direction, lifetime 3.0, size 0.2, gravity 5% of the
\* global gravity; lifetime equals maxLifetime and active is true.
C20_ConfigDefaults ==
    plast.op = "new" =>
        LET c     == plast.config
            speed == SuppliedOr(c.speed, DEFAULT_SPEED * PVU)
        IN  /\ proj.velocity = Vec(c.initialVelocity.x * speed,
                                   c.initialVelocity.y * speed,
                                   c.initialVelocity.z * speed)
            /\ proj.maxLifetime = SuppliedOr(c.lifetime, DEFAULT_LIFETIME * TPS)
            /\ proj.size = SuppliedOr(c.size, PPos(DEFAULT_SIZE_CM))
            /\ proj.gravity = SuppliedOr(c.gravity, BulletGravity(DEFAULT_GRAVITY_PERCENT))
            /\ proj.lifetime = proj.maxLifetime
            /\ proj.active

-----------------------------------------------------------------------------
(* ProjectileManager: the pool projectiles.current.  Sequences are         *)
(* 1-based: slot k of the code is element k + 1 of the sequence.           *)

MAX_PROJECTILES == 100

\* Math.min(delta, 0.1): 0.1 s in ticks
MAX_DELTA == 6

\* projectiles.current.findIndex(p => !p.isActive()): the first slot whose
\* projectile is inactive, or -1
FindInactive(pool) ==
    IF \A i \in 1..Len(pool) : isActive(pool[i])
    THEN -1
    ELSE (CHOOSE i \in 1..Len(pool) :
              /\ ~isActive(pool[i])
              /\ \A j \in 1..(i - 1) : isActive(pool[j])) - 1

\* variant of SpawnInto that always pushes
SpawnIntoAlwaysPush(pool, projectile) == Append(pool, projectile)

\* variant of SpawnInto that always recycles slot 0 at capacity
SpawnIntoAlwaysOldest(pool, projectile) ==
    IF Len(pool) >= MAX_PROJECTILES
    THEN [pool EXCEPT ![1] = projectile]
    ELSE Append(pool, projectile)

\* spawnProjectile, lines 36-46: where the new projectile is stored
SpawnInto(pool, projectile) ==
    IF Len(pool) >= MAX_PROJECTILES
    THEN LET inactiveIndex == FindInactive(pool)
             replaceIndex  == IF inactiveIndex # -1 THEN inactiveIndex ELSE 0
         IN  [pool EXCEPT ![replaceIndex + 1] = projectile]
    ELSE Append(pool, projectile)

\* variant of FrameUpdate that updates only the first activeCount slots
FrameUpdateDrawnOnly(pool, delta) ==
    [i \in 1..Len(pool) |->
        IF isActive(pool[i]) /\ i <= Cardinality({ j \in 1..Len(pool) : isActive(pool[j]) })
        THEN ProjUpdate(pool[i], Min(delta, MAX_DELTA))
        ELSE pool[i]]

\* useFrame, lines 73-103: every active projectile is updated with the
\* clamped delta (the instanced mesh is mounted)
FrameUpdate(pool, delta) ==
    [i \in 1..Len(pool) |->
        IF isActive(pool[i]) THEN ProjUpdate(pool[i], Min(delta, MAX_DELTA)) ELSE pool[i]]

\* getMatrix(): the Matrix4 composed from the trail position, the rotation
\* towards the velocity and the scale; it is kept as the fields it is
\* computed from
GetMatrix(p) ==
    [written |-> TRUE, position |-> p.position, velocity |-> p.velocity, size |-> p.size]

\* <instancedMesh args={[undefined, undefined, MAX_PROJECTILES]}>: the mesh
\* as mounted, MAX_PROJECTILES instances with unwritten matrices
NewMesh ==
    [count |-> MAX_PROJECTILES, instanceMatrix |-> [i \in 1..MAX_PROJECTILES |-> NoMatrix]]

\* the slots (1-based) whose projectile is active
ActiveSlots(pool) == { i \in 1..Len(pool) : isActive(pool[i]) }

\* useFrame, lines 76-111: setMatrixAt(index, getMatrix()) for every slot
\* that was active when the loop reached it, then count = activeCount
FrameMesh(pool, m, delta) ==
    [count |-> Cardinality(ActiveSlots(pool)),
     instanceMatrix |->
        [i \in 1..MAX_PROJECTILES |->
            IF i <= Len(pool) /\ isActive(pool[i])
            THEN GetMatrix(ProjUpdate(pool[i], Min(delta, MAX_DELTA)))
            ELSE m.instanceMatrix[i]]]

\* The manager's state: the pool, the instanced mesh and the number of
\* Projectile objects made.
EmptyManager == [pool |-> <<>>, mesh |-> NewMesh, made |-> 0]

SpawnOp(config) == [op |-> "spawn", config |-> config]

FrameOp(delta) == [op |-> "frame", delta |-> delta]

\* spawnProjectile(config) / one useFrame callback
ApplyOp(m, o) ==
    IF o.op = "spawn"
    THEN [pool |-> SpawnInto(m.pool, ProjCtor(o.config, m.made + 1)),
          mesh |-> m.mesh,
          made |-> m.made + 1]
    ELSE [m EXCEPT !.pool = FrameUpdate(m.pool, o.delta),
                   !.mesh = FrameMesh(m.pool, m.mesh, o.delta)]

\* the manager after the operations of w, in order
RECURSIVE RunOps(_, _)
RunOps(m, w) ==
    IF w = <<>> THEN m
    ELSE IF Len(w) = 1 THEN ApplyOp(m, w[1])
    ELSE LET h   == Len(w) \div 2
             mid == RunOps(m, SubSeq(w, 1, h))
         \* the test makes TLC compute mid before it descends
         IN  IF mid.made >= 0 THEN RunOps(mid, SubSeq(w, h + 1, Len(w))) ELSE mid

\* a burst of shoot() bullets, and a bullet that lives for 0.1 s
LongConfig == ShootConfig(Vec(0, 0, 1))

ShortConfig ==
    Config(Vec(0, PPos(150), 0), Vec(0, 0, 1), <<50 * PVU>>, <<>>, <<6>>, <<>>)

PoolConfigs == { LongConfig, ShortConfig }

\* Earlier play: nothing; 99 bullets in flight; 101 bullets fired, so that
\* the pool is full and slot 0 has been recycled once; 40 short-lived
\* bullets that have expired followed by 60 in flight; a full pool whose
\* slots 0..39 are in flight and whose slots 40..99 have expired.
PoolWarmups ==
    { <<>>,
      Rep(SpawnOp(LongConfig), 99),
      Rep(SpawnOp(LongConfig), 101),
      Rep(SpawnOp(ShortConfig), 40) \o <<FrameOp(6)>> \o Rep(SpawnOp(LongConfig), 60),
      Rep(SpawnOp(LongConfig), 40) \o Rep(SpawnOp(ShortConfig), 60) \o <<FrameOp(6)>> }

\* frame deltas: 1/60 s and a 0.5 s hitch
FrameDeltas == {1, 30}

\* the slots (1-based) whose projectile a caller deactivates
DeactSlots == {2, MAX_PROJECTILES}

MaxSpawns == 2

MaxFrames == 1

MaxDeacts == 1

\* operations made on the pool after the initial fill, of all kinds
MaxPoolOps == 4

InitPool ==
    /\ \E w \in PoolWarmups :
          /\ projectiles = RunOps(EmptyManager, w).pool
          /\ nextId = RunOps(EmptyManager, w).made + 1
          /\ mesh = RunOps(EmptyManager, w).mesh
    /\ poolLast = [op |-> "none", pre |-> projectiles, ret |-> IdleProj, delta |-> 0]
    /\ spawns = 0
    /\ frames = 0
    /\ deacts = 0
    /\ BodyIdle
    /\ ProjIdle

\* window.spawnProjectile(config)
Spawn ==
    /\ spawns < MaxSpawns
    /\ spawns + frames + deacts < MaxPoolOps
    /\ \E c \in PoolConfigs :
          /\ projectiles' = SpawnInto(projectiles, ProjCtor(c, nextId))
          /\ poolLast' = [op |-> "spawn", pre |-> projectiles,
                          ret |-> ProjCtor(c, nextId), delta |-> 0]
    /\ nextId' = nextId + 1
    /\ spawns' = spawns + 1
    /\ UNCHANGED <<frames, deacts, mesh, bodyVars, projVars>>

\* the useFrame callback
Frame ==
    /\ frames < MaxFrames
    /\ spawns + frames + deacts < MaxPoolOps
    /\ \E delta \in FrameDeltas :
          /\ projectiles' = FrameUpdate(projectiles, delta)
          /\ mesh' = FrameMesh(projectiles, mesh, delta)
          /\ poolLast' = [op |-> "frame", pre |-> projectiles,
                          ret |-> IdleProj, delta |-> delta]
    /\ frames' = frames + 1
    /\ UNCHANGED <<spawns, deacts, nextId, bodyVars, projVars>>

\* deactivate() on a projectile of the pool
Deactivate ==
    /\ deacts < MaxDeacts
    /\ spawns + frames + deacts < MaxPoolOps
    /\ \E i \in DeactSlots :
          /\ i <= Len(projectiles)
          /\ projectiles' = [projectiles EXCEPT ![i] = ProjDeactivate(projectiles[i])]
          /\ poolLast' = [op |-> "deactivate", pre |-> projectiles,
                          ret |-> IdleProj, delta |-> 0]
    /\ deacts' = deacts + 1
    /\ UNCHANGED <<spawns, frames, nextId, mesh, bodyVars, projVars>>

NextPool == Spawn \/ Frame \/ Deactivate

SpecPool == InitPool /\ [][NextPool]_vars

-----------------------------------------------------------------------------
(* Claims about the pool                                                   *)

\* C9: the pool never holds more than 100 projectiles, and a spawn at
\* capacity stores a new active projectile in the pool, whose length stays
\* 100.
C9_PoolBounded ==
    /\ Len(projectiles) <= 100
    /\ (poolLast.op = "spawn" /\ Len(poolLast.pre) = 100) =>
          /\ Len(projectiles) = 100
          /\ poolLast.ret.active
          /\ \A i \in 1..Len(poolLast.pre) : poolLast.pre[i].id # poolLast.ret.id
          /\ \E i \in 1..Len(projectiles) : projectiles[i] = poolLast.ret

\* a spawn into a full pool of active projectiles has been made
C9_Witness ==
    /\ poolLast.op = "spawn"
    /\ Len(poolLast.pre) = 100
    /\ \A i \in 1..100 : poolLast.pre[i].active
    /\ Len(projectiles) = 100

\* the inactive slots (1-based) of a pool
InactiveSlots(pool) == { i \in 1..Len(pool) : ~pool[i].active }

\* C10: a spawn appends when the pool has fewer than 100 entries (inactive
\* slots are not reused), overwrites the lowest inactive slot when the pool
\* has 100 entries, overwrites slot 0 when all 100 are active, and leaves
\* every other slot unchanged.
C10_InsertionPolicy ==
    poolLast.op = "spawn" =>
        LET pre == poolLast.pre
            n   == Len(pre)
        IN  IF n < 100
            THEN /\ Len(projectiles) = n + 1
                 /\ projectiles[n + 1] = poolLast.ret
                 /\ \A i \in 1..n : projectiles[i] = pre[i]
            ELSE /\ Len(projectiles) = n
                 /\ \E k \in 1..n :
                       /\ IF InactiveSlots(pre) = {}
                          THEN k = 1
                          ELSE k \in InactiveSlots(pre)
                               /\ \A j \in InactiveSlots(pre) : k <= j
                       /\ projectiles[k] = poolLast.ret
                       /\ \A i \in 1..n : i # k => projectiles[i] = pre[i]

\* a spawn into a full pool whose slot 0 is active has taken an inactive
\* slot further up
C10_Witness ==
    /\ poolLast.op = "spawn"
    /\ Len(poolLast.pre) = 100
    /\ poolLast.pre[1].active
    /\ InactiveSlots(poolLast.pre) # {}
    /\ projectiles[1] = poolLast.pre[1]
    /\ \E k \in InactiveSlots(poolLast.pre) : projectiles[k] = poolLast.ret

\* C11: a spawn into a full pool whose 100 projectiles are all active
\* overwrites the projectile that was spawned earliest among the 100 stored,
\* on every spawn of a run of such spawns.
C11_OverwritesOldest ==
    ( /\ poolLast.op = "spawn"
      /\ Len(poolLast.pre) = 100
      /\ InactiveSlots(poolLast.pre) = {} )
    => \A k \in 1..100 :
           projectiles[k] # poolLast.pre[k] =>
               \A j \in 1..100 : poolLast.pre[k].id <= poolLast.pre[j].id

\* C12: after each frame update the drawn instances 0 .. count-1 are exactly
\* the pool slots holding an active projectile: count is the number of
\* active projectiles, and every drawn instance carries the transform of
\* the active projectile in its slot.
C12_DrawnAreActive ==
    poolLast.op = "frame" =>
        /\ mesh.count = Cardinality(ActiveSlots(projectiles))
        /\ 1..mesh.count = ActiveSlots(projectiles)
        /\ \A i \in 1..mesh.count : mesh.instanceMatrix[i] = GetMatrix(projectiles[i])

\* C13, as claimed: an active projectile stays in the pool under every
\* spawn, and every frame update advances it (its lifetime goes down by the
\* tick length).
C13_Original ==
    /\ poolLast.op = "spawn" =>
          \A i \in ActiveSlots(poolLast.pre) :
              \E j \in 1..Len(projectiles) : projectiles[j] = poolLast.pre[i]
    /\ poolLast.op = "frame" =>
          \A i \in ActiveSlots(poolLast.pre) :
              /\ projectiles[i].id = poolLast.pre[i].id
              /\ projectiles[i].lifetime =
                     poolLast.pre[i].lifetime - Min(poolLast.delta, MAX_DELTA)

\* C13, amended: besides lifetime expiry, ground impact and deactivate, a
\* projectile leaves the simulation when a spawn made while the pool holds
\* 100 projectiles, all active, overwrites slot 0.  In every other case an
\* active projectile keeps its slot under a spawn, and every frame update
\* advances every active projectile.
C13_ExitsOfAProjectile ==
    /\ poolLast.op = "spawn" =>
          \A i \in ActiveSlots(poolLast.pre) :
              \/ /\ Len(poolLast.pre) = 100
                 /\ InactiveSlots(poolLast.pre) = {}
                 /\ i = 1
              \/ projectiles[i] = poolLast.pre[i]
    /\ poolLast.op = "frame" =>
          \A i \in ActiveSlots(poolLast.pre) :
              /\ projectiles[i].id = poolLast.pre[i].id
              /\ projectiles[i].lifetime =
                     poolLast.pre[i].lifetime - Min(poolLast.delta, MAX_DELTA)

\* after a later spawn into the full pool, a frame has advanced a projectile
\* of the initial fill that sits behind inactive slots, and it is still
\* active
C13_Witness ==
    /\ poolLast.op = "frame"
    /\ spawns > 0
    /\ Len(poolLast.pre) = 100
    /\ \E i \in ActiveSlots(poolLast.pre) :
          /\ InactiveSlots(poolLast.pre) \cap 1..i # {}
          /\ poolLast.pre[i].id < nextId - spawns
          /\ projectiles[i].active
          /\ projectiles[i].lifetime < poolLast.pre[i].lifetime

-----------------------------------------------------------------------------
(* Claims about the tick lengths of the host loop                          *)

\* C19: every tick length passed to PhysicsBody.update and to
\* Projectile.update is at most 0.1 s, whatever the frame's delta is.
C19_TicksClamped ==
    /\ last.op = "update" => last.dt <= MAX_DELTA
    /\ poolLast.op = "frame" =>
          \A i \in ActiveSlots(poolLast.pre) :
              poolLast.pre[i].lifetime - projectiles[i].lifetime <= MAX_DELTA

-----------------------------------------------------------------------------
(* Jet flag, recharge, lastJumpTime and the velocity range.                *)

\* C24: after every update jetActive, as isJetActive() and as
\* getState().jetActive report it, is true exactly when the jet was
\* requested in that tick and fuel was > 0 at its start; isRecharging is
\* false whenever jetActive is true.
C24_JetActive ==
    /\ last.op = "update" =>
          /\ isJetActive(body) <=> (last.jet /\ last.pre.state.fuel > 0)
          /\ getState(body).jetActive = isJetActive(body)
    /\ isJetActive(body) => ~body.state.isRecharging
    /\ getState(body).jetActive => ~getState(body).isRecharging

\* the jet was requested on an empty tank and did not fire
C24_Witness ==
    /\ last.op = "update"
    /\ last.jet
    /\ last.pre.state.fuel = 0
    /\ last.pre.jetActive
    /\ ~isJetActive(body)
    /\ ~getState(body).jetActive

\* C25: in a tick where the jet does not fire, with f the fuel at the start
\* of the tick and grounded the flag as the recharge code reads it (after
\* the jump edge): recharging begins exactly when the body was not
\* recharging, f < max and (grounded or f > 10% of max); when recharging the
\* fuel is min(max, f + rate * dt) with rate 8 on the ground and 2 in the
\* air, otherwise it is f; it is never below f.
C25_Recharge ==
    (last.op = "update" /\ ~(last.jet /\ last.pre.state.fuel > 0)) =>
        LET f == last.pre.state.fuel
            g == last.mid.state.grounded
            was == last.pre.state.isRecharging
            begins == ~was /\ f < FuelMax /\ (g \/ f * 10 > FuelMax)
            rate == IF g THEN FUEL_RECHARGE ELSE FUEL_RECHARGE \div 4
        IN /\ body.state.isRecharging = (was \/ begins)
           /\ body.state.fuel = IF was \/ begins
                                THEN Min(FuelMax, f + rate * last.dt)
                                ELSE f
           /\ body.state.fuel >= f

\* airborne, not recharging, fuel above 0 and at most 10% of max: the tick
\* leaves the fuel
\* alone and does not begin to recharge
C25_Witness ==
    /\ last.op = "update"
    /\ ~last.jet
    /\ ~last.pre.state.isRecharging
    /\ ~last.mid.state.grounded
    /\ last.pre.state.fuel > 0
    /\ last.pre.state.fuel * 10 <= FuelMax
    /\ body.state.fuel = last.pre.state.fuel
    /\ ~body.state.isRecharging

\* C27: after every update lastJumpTime is 0 if the body is grounded and
\* otherwise the value before the tick plus the tick's dt; a grounded body
\* has lastJumpTime 0 in every state, so the value of an airborne body is
\* the sum of the dt of the airborne ticks since it was last grounded.
C27_LastJumpTime ==
    /\ body.state.grounded => body.state.lastJumpTime = 0
    /\ last.op = "update" =>
          body.state.lastJumpTime =
              IF body.state.grounded
              THEN 0
              ELSE (IF last.pre.state.grounded THEN 0 ELSE last.pre.state.lastJumpTime)
                       + last.dt

\* a second airborne tick in a row
C27_Witness ==
    /\ last.op = "update"
    /\ ~last.pre.state.grounded
    /\ last.pre.state.lastJumpTime > 0
    /\ ~body.state.grounded
    /\ body.state.lastJumpTime = last.pre.state.lastJumpTime + last.dt

\* C28: velocity.y lies in [maxFallSpeed, jetMaxVelocity] after every
\* update, also after a tick that combines a jump impulse with jet thrust.
C28_VelocityRange ==
    /\ body.state.velocity.y <= JetMaxVelocity
    /\ body.state.velocity.y >= MaxFallSpeed
    /\ last.op = "update" => last.jetted.state.velocity.y <= JetMaxVelocity

\* a tick with a jump impulse and jet thrust in which the cap acted
C28_Witness ==
    /\ last.op = "update"
    /\ last.jump
    /\ last.jet
    /\ last.pre.state.grounded
    /\ last.mid.state.velocity.y = JumpForce
    /\ last.pre.state.fuel > 0
    /\ last.mid.state.velocity.y
          + TimesDt(JetForce, last.dt) > JetMaxVelocity
    /\ last.jetted.state.velocity.y = JetMaxVelocity
    /\ body.state.velocity.y <= JetMaxVelocity

-----------------------------------------------------------------------------
(* The jump edge.                                                          *)

\* C22: a tick applies the jump impulse only if the body was grounded at
\* the start of the tick, jump is true in the tick and jump was false in the
\* previous tick.
C22_RisingEdge ==
    (last.op = "update" /\ Impulse(last.pre, last.jump)) =>
        /\ last.pre.state.grounded
        /\ last.jump
        /\ ~jumpHist.prev

\* C23: while jump has been true in every tick since a jump impulse, a
\* tick with jump true applies no impulse, also when the body has landed in
\* between: an impulse needs a tick with jump false since the one before.
C23_HeldJumpIsInert ==
    [][(jumpHist.held /\ last'.op = "update" /\ last'.jump)
          => ~Impulse(last'.pre, last'.jump)]_vars

\* jump held from the impulse through the flight and the landing: the tick
\* that starts grounded again applies no impulse
C23_Witness ==
    /\ last.op = "update"
    /\ last.dt = 6
    /\ ticks >= 8
    /\ jumpHist.held
    /\ last.jump
    /\ last.pre.state.grounded
    /\ last.pre.jumpPressed
    /\ ~Impulse(last.pre, last.jump)
    /\ body.state.grounded
    /\ body.state.velocity.y = 0

-----------------------------------------------------------------------------
(* The jet held on an empty tank.                                          *)

\* number of 0.1 s ticks of thrust that empty a full tank
DryAt == FuelMax \div (FUEL_CONSUMPTION * 6)

\* C26: with the jet held in every tick, the fuel reaches 0 in tick DryAt,
\* and jetActive is false after every later tick, in the air and after the
\* landing.
C26_NoJitter ==
    /\ (inJet /\ jetTicks = DryAt) => body.state.fuel = 0
    /\ (inJet /\ jetTicks > DryAt) => ~body.jetActive

-----------------------------------------------------------------------------
(* Recharge without the jet.                                               *)

\* C30: when the jet is never requested and update keeps being called with
\* dt = 0.1 s, from every start (also airborne, not recharging, with fuel
\* at or below 10% of max) the fuel eventually is jetFuelMax and stays
\* there.
C30_FuelRefills == <>[](body.state.fuel = FuelMax)

\* the longest flight, in ticks of 1/60 s: 20 s
AirLimit == 20 * TPS

====
